---- MODULE Spec2Model ----
(***************************************************************************)
(* Model of the cost-ingestion job runner of spaceone cost-analysis:       *)
(* JobService.get_cost_data and JobService._close_job with the helpers     *)
(* they call (src/src/spaceone/cost_analysis/service/job_service.py).      *)
(* One process per job_task_id runs get_cost_data; the processes share the *)
(* Job, JobTask, DataSource and Cost collections.  Every storage call of   *)
(* the service is one atomic step, so sibling tasks interleave between     *)
(* any two storage calls.                                                  *)
(***************************************************************************)
EXTENDS Integers, FiniteSets, Sequences, Bags, TLC

\* ------------------------------------------------------------------ bounds
NumTasks == 2      \* tasks of the job under synchronisation
MaxRows == 1       \* rows one get_cost_data run consumes from the plugin
MaxReinvoke == 1   \* get_cost_data calls repeated for an already-run task

\* ------------------------------------------------------------- identities
TaskIds == 1..NumTasks             \* job_task_ids the scheduler submits
Procs == TaskIds                   \* one get_cost_data call per job_task_id
JobId == "job-1"
DataSourceId == "ds-1"
DomainId == "domain-1"

NoneTime == -1                     \* Python None in a datetime field
T == 2                             \* Job.last_changed_at when it is set
CreatedAt == 5                     \* Job.created_at

NoExc == "none"                    \* no exception pending in the run

NoneId == "<None>"                 \* Python None in an id field
EmptyDict == [k \in {} |-> ""]      \* the dict {}

VARIABLES
    job,       \* the Job document: exists, status, remained_tasks, ...
    task,      \* JobTask documents by job_task_id
    ds,        \* the DataSource document
    costs,     \* bag of persisted Cost documents
    pc,        \* position of each get_cost_data call
    count,     \* local `count` of each call
    exc,       \* exception caught by the `except` clause of each call
    job_vo,    \* the Job read by _close_job (remained_tasks, status)
    outcome,   \* how the call of a job_task_id ended (running, returned,
               \* raised), with the last exception raised in it and its line
    runs,      \* calls started per job_task_id
    runLog,    \* what the current/last call of a job_task_id has done
    jobLog,    \* how often each job-level effect was performed
    fetched    \* what the call that has not failed exchanged with the secret
               \* manager, the plugin and the cost collection

vars == <<job, task, ds, costs, pc, count, exc, job_vo, outcome, runs, runLog, jobLog,
          fetched>>

\* ------------------------------------------------------- plugin cost rows
\* Rows of the plugin stream (raw dicts; absent keys are absent fields).
RowFull == [billed_at |-> "2023-01-02T00:00:00Z", cost |-> 10, currency |-> "EUR",
            job_id |-> "job-0"]
RowBare == [billed_at |-> "2023-01-01T00:00:00Z"]
RowBad == [billed_at |-> "yesterday"]
Rows == {RowFull, RowBare, RowBad}

\* utils.iso8601_to_datetime: parses an ISO-8601 string, raises otherwise.
IsIso8601(s) == s \in {"2023-01-01T00:00:00Z", "2023-01-02T00:00:00Z"}
iso8601_to_datetime(s) ==
    CASE s = "2023-01-01T00:00:00Z" -> T - 1
      [] s = "2023-01-02T00:00:00Z" -> T

\* dict.get(key, default)
Get(d, key, default) == IF key \in DOMAIN d THEN d[key] ELSE default

\* _create_cost_data that keeps the identity fields a row brings along.
CreateCostData_RowWins(cost_data, job_task_vo) ==
    [job_id |-> Get(cost_data, "job_id", job_task_vo.job_id),
     data_source_id |-> Get(cost_data, "data_source_id", job_task_vo.data_source_id),
     domain_id |-> Get(cost_data, "domain_id", job_task_vo.domain_id),
     original_currency |-> Get(cost_data, "currency", "USD"),
     original_cost |-> Get(cost_data, "cost", 0),
     billed_at |-> iso8601_to_datetime(cost_data.billed_at)]

\* _create_cost_data, lines 108-113: the dict handed to create_cost.
CreateCostData(cost_data, job_task_vo) ==
    [job_id |-> job_task_vo.job_id,
     data_source_id |-> job_task_vo.data_source_id,
     domain_id |-> job_task_vo.domain_id,
     original_currency |-> Get(cost_data, "currency", "USD"),
     original_cost |-> Get(cost_data, "cost", 0),
     billed_at |-> iso8601_to_datetime(cost_data.billed_at)]

\* ------------------------------------------------------------ control flow
\* A try block that ends before the success transition of line 91.
InTry_EndsAt85(line) == line >= 66 /\ line <= 85

\* A try block that opens after the data source has been loaded.
InTry_OpensAt70(line) == line >= 70 /\ line <= 91

\* A try block that opens after the plugin endpoint has been resolved.
InTry_OpensAt72(line) == line >= 72 /\ line <= 91

\* The try block of get_cost_data spans lines 66-91; an exception raised
\* while get_cost_data executes `line` is handled by `except Exception`
\* (line 93) iff the line is inside.
InTry(line) == line >= 66 /\ line <= 91

\* _close_job called at the end of the try block only: skipped after except.
AfterTry_InsideTry(path) == IF path = "except" THEN "idle" ELSE "close_job"

\* Line 96 follows the try statement: both the success path and the except
\* clause continue with _close_job.
AfterTry(path) == "close_job"

\* _close_job that forgets the rollback branch.
CloseBranch_NoRollback(remained_tasks, status) ==
    IF remained_tasks = 0 /\ status = "IN_PROGRESS" THEN "finalize" ELSE "return"

\* _close_job that finalizes a job that is SUCCESS already.
CloseBranch_Refinalize(remained_tasks, status) ==
    IF remained_tasks = 0
    THEN IF status \in {"IN_PROGRESS", "SUCCESS"} THEN "finalize"
         ELSE IF status = "ERROR" THEN "rollback"
         ELSE "return"
    ELSE "return"

\* _close_job that does not look at remained_tasks.
CloseBranch_IgnoreRemained(remained_tasks, status) ==
    IF status = "IN_PROGRESS" THEN "finalize"
    ELSE IF status = "ERROR" THEN "rollback"
    ELSE "return"

\* _close_job that finalizes a job in ERROR too.
CloseBranch_FinalizeOnError(remained_tasks, status) ==
    IF remained_tasks = 0
    THEN IF status \in {"IN_PROGRESS", "ERROR"} THEN "finalize" ELSE "return"
    ELSE "return"

\* _close_job that acts when one task is still outstanding.
CloseBranch_OffByOne(remained_tasks, status) ==
    IF remained_tasks <= 1
    THEN IF status = "IN_PROGRESS" THEN "finalize"
         ELSE IF status = "ERROR" THEN "rollback"
         ELSE "return"
    ELSE "return"

\* _close_job with `else` in place of `elif job_vo.status == 'ERROR'`.
CloseBranch_ElseRollback(remained_tasks, status) ==
    IF remained_tasks = 0
    THEN IF status = "IN_PROGRESS" THEN "finalize" ELSE "rollback"
    ELSE "return"

\* _close_job, lines 120-127: what the call does for the Job it has read.
CloseBranch(remained_tasks, status) ==
    IF remained_tasks = 0
    THEN IF status = "IN_PROGRESS" THEN "finalize"
         ELSE IF status = "ERROR" THEN "rollback"
         ELSE "return"
    ELSE "return"

\* _rollback_cost_data, lines 130-131: the filter of filter_costs.
RollbackFilter(c, jv) ==
    /\ c.data_source_id = jv.data_source_id
    /\ c.domain_id = jv.domain_id
    /\ c.job_id = jv.job_id

\* The query with `gt` in place of `gte`.
ChangedFilter_After(c, jv) ==
    /\ c.billed_at > jv.last_changed_at
    /\ c.data_source_id = jv.data_source_id
    /\ c.domain_id = jv.domain_id
    /\ c.job_id # jv.job_id

\* _delete_changed_cost_data, lines 145-152: the query of list_costs.
ChangedFilter(c, jv) ==
    /\ c.billed_at >= jv.last_changed_at
    /\ c.data_source_id = jv.data_source_id
    /\ c.domain_id = jv.domain_id
    /\ c.job_id # jv.job_id

\* QuerySet.delete(): the collection without the documents of the query set.
Delete(bag, cost_vos) ==
    [c \in DOMAIN bag \ cost_vos |-> bag[c]]

\* ------------------------------------------------------------------- Init
\* Cost documents written by an earlier, finished job and by other sources.
PriorCosts ==
    {[job_id |-> "job-0", data_source_id |-> DataSourceId, domain_id |-> DomainId,
      original_currency |-> "USD", original_cost |-> 1, billed_at |-> b] : b \in {T - 1, T}}
    \cup
    {[job_id |-> "job-0", data_source_id |-> d[1], domain_id |-> d[2],
      original_currency |-> "USD", original_cost |-> 1, billed_at |-> T] :
        d \in {<<"ds-2", DomainId>>, <<DataSourceId, "domain-2">>}}

NoJob == [job_id |-> "", remained_tasks |-> 0, status |-> ""]

\* A call that has not reached the secret manager or the plugin.
NoFetch == [secret_queried |-> FALSE, started |-> FALSE, secret_data |-> EmptyDict,
            rows |-> 0, persisted |-> 0]

\* What the collections hold when the scheduler submits the tasks: all the
\* documents, or one of them deleted meanwhile (the Job, the DataSource, or
\* the JobTask with the highest id).
Scenarios == {"complete", "no_job", "no_data_source", "no_job_task"}

InitIn(scenario) ==
    /\ job = [exists |-> scenario # "no_job", job_id |-> JobId,
              data_source_id |-> DataSourceId, domain_id |-> DomainId,
              status |-> IF scenario = "canceled" THEN "CANCELED" ELSE "IN_PROGRESS",
              remained_tasks |-> NumTasks, created_at |-> CreatedAt,
              last_changed_at |-> IF scenario = "no_last_changed_at" THEN NoneTime ELSE T]
    /\ task = [t \in (IF scenario = "no_job_task" THEN TaskIds \ {NumTasks} ELSE TaskIds) |->
                 [job_id |-> JobId, data_source_id |-> DataSourceId,
                  domain_id |-> DomainId, status |-> "PENDING",
                  ingested_count |-> 0, error_message |-> ""]]
    /\ ds = [exists |-> scenario # "no_data_source", data_source_id |-> DataSourceId,
             domain_id |-> DomainId,
             secret_id |-> CASE scenario = "no_secret_id" -> NoneId
                             [] scenario = "empty_secret_id" -> ""
                             [] OTHER -> "secret-1",
             last_synchronized_at |-> NoneTime]
    /\ costs = SetToBag(PriorCosts)
    /\ pc = [p \in Procs |-> "idle"]
    /\ count = [p \in Procs |-> 0]
    /\ exc = [p \in Procs |-> NoExc]
    /\ job_vo = [p \in Procs |-> NoJob]
    /\ outcome = [p \in Procs |-> [result |-> "none", line |-> 0, exc |-> NoExc]]
    /\ runs = [p \in Procs |-> 0]
    /\ runLog = [p \in Procs |-> {}]
    /\ jobLog = [transitions |-> 0, finalized |-> 0, synced |-> 0,
                 reconciled |-> 0, rolledback |-> 0]
    /\ fetched = [p \in Procs |-> NoFetch]

Init == \E scenario \in Scenarios : InitIn(scenario)

\* ---------------------------------------------------------------- helpers
\* Calls made beyond the first one of each job_task_id.
Reinvoked ==
    LET sum[S \in SUBSET Procs] ==
            IF S = {} THEN 0
            ELSE LET q == CHOOSE x \in S : TRUE
                 IN (IF runs[q] > 1 THEN runs[q] - 1 ELSE 0) + sum[S \ {q}]
    IN sum[Procs]

Logged(p, ev) == runLog' = [runLog EXCEPT ![p] = @ \cup {ev}]

\* An exception `e` raised while the call of p executes line `line` of
\* get_cost_data (in that line or in a function it calls): caught by the
\* except clause (line 93) inside the try block, else it leaves
\* get_cost_data and reaches the caller.  The local `count` is not read
\* after an exception, and `fetched` describes calls that have not failed in
\* the try block.
Raise(p, e, line) ==
    /\ count' = [count EXCEPT ![p] = 0]
    /\ fetched' = IF InTry(line) THEN [fetched EXCEPT ![p] = NoFetch] ELSE fetched
    /\ IF InTry(line)
       THEN /\ pc' = [pc EXCEPT ![p] = "change_error"]
            /\ exc' = [exc EXCEPT ![p] = e]
            /\ outcome' = [outcome EXCEPT ![p] = [result |-> "running", line |-> line, exc |-> e]]
            /\ UNCHANGED job_vo
       ELSE /\ pc' = [pc EXCEPT ![p] = "idle"]
            /\ exc' = [exc EXCEPT ![p] = NoExc]
            /\ outcome' = [outcome EXCEPT ![p] = [result |-> "raised", line |-> line, exc |-> e]]
            /\ job_vo' = [job_vo EXCEPT ![p] = NoJob]

\* get_cost_data returns None to its caller.
Return(p) ==
    /\ pc' = [pc EXCEPT ![p] = "idle"]
    /\ exc' = [exc EXCEPT ![p] = NoExc]
    /\ outcome' = [outcome EXCEPT ![p].result = "returned"]
    /\ job_vo' = [job_vo EXCEPT ![p] = NoJob]

\* ---------------------------------------------------------------- actions
\* Lines 51-64: the call loads the JobTask (NotFound when absent) and marks
\* it IN_PROGRESS.
GetJobTask(p) ==
    /\ pc[p] = "idle"
    /\ runs' = [runs EXCEPT ![p] = @ + 1]
    /\ IF p \in DOMAIN task
       THEN /\ task' = [task EXCEPT ![p].status = "IN_PROGRESS"]
            /\ pc' = [pc EXCEPT ![p] = "resolve"]
            /\ outcome' = [outcome EXCEPT ![p] = [result |-> "running", line |-> 0, exc |-> NoExc]]
            /\ runLog' = [runLog EXCEPT ![p] = {"in_progress"}]
            /\ fetched' = [fetched EXCEPT ![p] = NoFetch]
            /\ UNCHANGED <<count, exc, job_vo>>
       ELSE /\ Raise(p, "NotFound:job_task", 55)
            /\ runLog' = [runLog EXCEPT ![p] = {}]
            /\ UNCHANGED task
    /\ UNCHANGED <<job, ds, costs, jobLog>>

\* The scheduler submits get_cost_data for a job_task_id.
Submit(p) ==
    /\ runs[p] = 0
    /\ GetJobTask(p)

\* A job_task_id whose call has ended is submitted again.
Resubmit(p) ==
    /\ p \in TaskIds
    /\ runs[p] > 0
    /\ Reinvoked < MaxReinvoke
    /\ GetJobTask(p)

\* `if secret_id` tested with `is not None`: the empty string is looked up.
SecretQueried_NotNone(secret_id) == secret_id # NoneId

\* _get_secret_data, line 99: the secret manager is asked only for a truthy
\* secret_id (neither None nor the empty string).
SecretQueried(secret_id) == secret_id \notin {NoneId, ""}

\* What the secret manager holds: SecretManager.get_secret_data(secret_id,
\* domain_id), an empty dict for an id it does not know.
SecretStore == [s \in {"secret-1"} |-> [token |-> "key-of-secret-1"]]
SecretManagerData(secret_id) ==
    IF secret_id \in DOMAIN SecretStore THEN SecretStore[secret_id] ELSE EmptyDict

\* _get_secret_data, lines 98-105: the secret_data of the call.
GetSecretData(secret_id) ==
    IF SecretQueried(secret_id) THEN SecretManagerData(secret_id) ELSE EmptyDict

\* Lines 67-78: data source, plugin endpoint, secret, plugin initialize.
Resolve(p) ==
    /\ pc[p] = "resolve"
    /\ IF ~ds.exists
       THEN Raise(p, "NotFound:data_source", 67)
       ELSE \/ Raise(p, "endpoint", 70)
            \/ SecretQueried(ds.secret_id) /\ Raise(p, "secret", 75)
            \/ Raise(p, "initialize", 77)
            \/ /\ pc' = [pc EXCEPT ![p] = "fetch"]
               /\ fetched' = [fetched EXCEPT ![p] =
                       [secret_queried |-> SecretQueried(ds.secret_id), started |-> TRUE,
                        secret_data |-> GetSecretData(ds.secret_id),
                        rows |-> 0, persisted |-> 0]]
               /\ UNCHANGED <<count, exc, outcome, job_vo>>
    /\ UNCHANGED <<job, task, ds, costs, runs, runLog, jobLog>>

\* Line 84 left out: the rows are persisted and not counted.
CountRow_Missing(n) == n

\* Line 84, `count += 1`, run once for every row of every batch.
CountRow(n) == n + 1

\* Lines 82-85: one step of the two loops over the plugin stream: the stream
\* raises, or yields one more row that is counted, normalised and persisted,
\* or ends.
Fetch(p) ==
    /\ pc[p] = "fetch"
    /\ \/ /\ Raise(p, "plugin", 82)
          /\ UNCHANGED costs
       \/ /\ fetched[p].rows < MaxRows
          /\ \E cost_data \in Rows :
               IF ~IsIso8601(cost_data.billed_at)
               THEN /\ Raise(p, "billed_at", 85)
                    /\ UNCHANGED costs
               ELSE \/ /\ Raise(p, "create_cost", 85)
                       /\ UNCHANGED costs
                    \/ /\ count' = [count EXCEPT ![p] = CountRow(@)]
                       /\ costs' = costs (+) SetToBag({CreateCostData(cost_data, task[p])})
                       /\ fetched' = [fetched EXCEPT ![p].rows = @ + 1,
                                                     ![p].persisted = @ + 1]
                       /\ UNCHANGED <<pc, exc, outcome, job_vo>>
       \/ /\ pc' = [pc EXCEPT ![p] = "change_success"]
          /\ UNCHANGED <<count, costs, exc, outcome, job_vo, fetched>>
    /\ UNCHANGED <<job, task, ds, runs, runLog, jobLog>>

\* JobManager.decrease_remained_tasks: the atomic decrement of the Job
\* document; it matches no document when the job is gone.
DecreaseRemainedTasks ==
    job' = IF job.exists THEN [job EXCEPT !.remained_tasks = @ - 1] ELSE job

\* Line 91, JobTaskManager.change_success_status, first storage call: the
\* JobTask becomes SUCCESS with ingested_count = count.
ChangeSuccessStatus(p) ==
    /\ pc[p] = "change_success"
    /\ task' = [task EXCEPT ![p].status = "SUCCESS", ![p].ingested_count = count[p]]
    /\ count' = [count EXCEPT ![p] = 0]
    /\ pc' = [pc EXCEPT ![p] = "success_decrement"]
    /\ Logged(p, "task_success")
    /\ jobLog' = [jobLog EXCEPT !.transitions = @ + 1]
    /\ UNCHANGED <<job, ds, costs, exc, job_vo, outcome, runs, fetched>>

\* Line 91, change_success_status, second storage call: remained_tasks of
\* the parent Job is decremented; the call may fail, and the failure is
\* raised inside the try block.
SuccessDecrement(p) ==
    /\ pc[p] = "success_decrement"
    /\ \/ /\ DecreaseRemainedTasks
          /\ pc' = [pc EXCEPT ![p] = AfterTry("success")]
          /\ Logged(p, "decrement")
          /\ UNCHANGED <<count, exc, outcome, job_vo, fetched>>
       \/ /\ Raise(p, "decrease_remained_tasks", 91)
          /\ UNCHANGED <<job, runLog>>
    /\ UNCHANGED <<task, ds, costs, runs, jobLog>>

\* Line 94, JobTaskManager.change_error_status, first storage calls: the
\* JobTask becomes ERROR with the exception's message and the parent Job is
\* marked ERROR.
ChangeErrorStatus(p) ==
    /\ pc[p] = "change_error"
    /\ task' = [task EXCEPT ![p].status = "ERROR", ![p].error_message = exc[p]]
    /\ job' = IF job.exists THEN [job EXCEPT !.status = "ERROR"] ELSE job
    /\ pc' = [pc EXCEPT ![p] = "error_decrement"]
    /\ Logged(p, "task_error")
    /\ jobLog' = [jobLog EXCEPT !.transitions = @ + 1]
    /\ UNCHANGED <<ds, costs, count, exc, job_vo, outcome, runs, fetched>>

\* Line 94, change_error_status, last storage call: the decrement.
ErrorDecrement(p) ==
    /\ pc[p] = "error_decrement"
    /\ DecreaseRemainedTasks
    /\ pc' = [pc EXCEPT ![p] = AfterTry("except")]
    /\ exc' = [exc EXCEPT ![p] = NoExc]
    /\ Logged(p, "decrement")
    /\ UNCHANGED <<task, ds, costs, count, job_vo, outcome, runs, jobLog, fetched>>

\* An earlier _close_job call has finalized or rolled back the job, which is
\* terminal with no task outstanding.
Closed ==
    /\ job.remained_tasks = 0
    /\ \/ job.status = "ERROR" /\ jobLog.rolledback > 0
       \/ /\ job.status = "SUCCESS"
          /\ jobLog.finalized > 0
          /\ \A q \in Procs : pc[q] \notin {"update_last_sync", "delete_changed"}

\* Lines 96, 117-127: _close_job reads the Job (NotFound when absent) and
\* branches on the remained_tasks and status it has read.
CloseJob(p) ==
    /\ pc[p] = "close_job"
    /\ IF ~job.exists
       THEN /\ Raise(p, "NotFound:job", 96)
            /\ Logged(p, "close")
       ELSE LET branch == CloseBranch(job.remained_tasks, job.status)
                seen == {"close"}
                        \cup (IF job.remained_tasks = 0 THEN {"close_zero"} ELSE {})
                        \cup (IF Closed THEN {"close_again"} ELSE {})
            IN /\ runLog' = [runLog EXCEPT ![p] = @ \cup seen]
               /\ IF branch = "return"
                  THEN Return(p)
                  ELSE /\ job_vo' = [job_vo EXCEPT ![p] = job]
                       /\ pc' = [pc EXCEPT ![p] = branch]
                       /\ UNCHANGED <<exc, outcome>>
               /\ UNCHANGED <<count, fetched>>
    /\ UNCHANGED <<job, task, ds, costs, runs, jobLog>>

\* Line 122, JobManager.change_success_status(job_vo): the Job becomes SUCCESS.
JobChangeSuccessStatus(p) ==
    /\ pc[p] = "finalize"
    /\ job' = [job EXCEPT !.status = "SUCCESS"]
    /\ pc' = [pc EXCEPT ![p] = "update_last_sync"]
    /\ jobLog' = [jobLog EXCEPT !.finalized = @ + 1]
    /\ UNCHANGED <<task, ds, costs, count, exc, job_vo, outcome, runs, runLog, fetched>>

\* Lines 123, 136-139: _update_last_sync_time.
UpdateLastSyncTime(p) ==
    /\ pc[p] = "update_last_sync"
    /\ IF ~ds.exists
       THEN /\ Raise(p, "NotFound:data_source", 96)
            /\ UNCHANGED <<ds, jobLog>>
       ELSE /\ ds' = [ds EXCEPT !.last_synchronized_at = job_vo[p].created_at]
            /\ pc' = [pc EXCEPT ![p] = "delete_changed"]
            /\ jobLog' = [jobLog EXCEPT !.synced = @ + 1]
            /\ UNCHANGED <<count, exc, outcome, job_vo, fetched>>
    /\ UNCHANGED <<job, task, costs, runs, runLog>>

\* _delete_changed_cost_data without the test of line 144.
HasLastChangedAt_Always(last_changed_at) == TRUE

\* Line 144, `if last_changed_at:`.
HasLastChangedAt(last_changed_at) == last_changed_at # NoneTime

\* Lines 124, 141-155: _delete_changed_cost_data, then get_cost_data returns.
DeleteChangedCostData(p) ==
    /\ pc[p] = "delete_changed"
    /\ LET jv == job_vo[p]
           cost_vos == {c \in DOMAIN costs : ChangedFilter(c, jv)}
       IN IF HasLastChangedAt(jv.last_changed_at)
          THEN /\ costs' = Delete(costs, cost_vos)
               /\ jobLog' = [jobLog EXCEPT !.reconciled = @ + 1]
          ELSE UNCHANGED <<costs, jobLog>>
    /\ Return(p)
    /\ UNCHANGED <<job, task, ds, count, runs, runLog, fetched>>

\* Lines 127, 129-134: _rollback_cost_data, then get_cost_data returns.
RollbackCostData(p) ==
    /\ pc[p] = "rollback"
    /\ LET jv == job_vo[p]
           cost_vos == {c \in DOMAIN costs : RollbackFilter(c, jv)}
       IN costs' = Delete(costs, cost_vos)
    /\ jobLog' = [jobLog EXCEPT !.rolledback = @ + 1]
    /\ Return(p)
    /\ UNCHANGED <<job, task, ds, count, runs, runLog, fetched>>

\* The rest of a started call.
Step(p) ==
    \/ Resolve(p)
    \/ Fetch(p)
    \/ ChangeSuccessStatus(p)
    \/ SuccessDecrement(p)
    \/ ChangeErrorStatus(p)
    \/ ErrorDecrement(p)
    \/ CloseJob(p)
    \/ JobChangeSuccessStatus(p)
    \/ UpdateLastSyncTime(p)
    \/ DeleteChangedCostData(p)
    \/ RollbackCostData(p)

\* Every job_task_id is submitted once.
Next == \E p \in Procs : Submit(p) \/ Step(p)

Spec == Init /\ [][Next]_vars

\* A job_task_id may also be submitted again after its call has ended.
NextRerun == \E p \in Procs : Submit(p) \/ Resubmit(p) \/ Step(p)

SpecRerun == Init /\ [][NextRerun]_vars

\* A worker runs a started call to its end.
FairSpec == Spec /\ \A p \in Procs : WF_vars(Step(p))

\* A job whose last_changed_at is None.
SpecNoChange == InitIn("no_last_changed_at") /\ [][Next]_vars

\* A job that is IN_PROGRESS, or one that was canceled before its tasks ran
\* (get_cost_data does not look at the job's status: TODO of line 59).
SpecCanceled == (InitIn("complete") \/ InitIn("canceled")) /\ [][Next]_vars

\* A data source whose plugin_info has a secret_id, has none, or an empty one.
SpecSecret ==
    /\ \E scenario \in {"complete", "no_secret_id", "empty_secret_id"} : InitIn(scenario)
    /\ [][Next]_vars

\* The JobTask of a second job that synchronises the same data source of the
\* same domain at the same time.
OtherJobId == "job-2"
OtherJobTask == [job_id |-> OtherJobId, data_source_id |-> DataSourceId,
                 domain_id |-> DomainId]

\* Lines 82-85 in the get_cost_data call of the other job's task: it
\* persists a row billed at or after last_changed_at.
OtherJobPersist ==
    /\ CreateCostData(RowFull, OtherJobTask) \notin DOMAIN costs
    /\ costs' = costs (+) SetToBag({CreateCostData(RowFull, OtherJobTask)})
    /\ UNCHANGED <<job, task, ds, pc, count, exc, job_vo, outcome, runs, runLog, jobLog,
                   fetched>>

NextTwoJobs == Next \/ OtherJobPersist

SpecTwoJobs == InitIn("complete") /\ [][NextTwoJobs]_vars

\* ================================================================= claims
\* The scenario in which every document exists.
Complete == job.exists /\ ds.exists /\ DOMAIN task = TaskIds

\* Every submitted call has ended.
AllEnded == \A p \in Procs : runs[p] > 0 /\ pc[p] = "idle"

\* Every call has returned normally to its caller.
AllReturned == \A p \in Procs : pc[p] = "idle" /\ outcome[p].result = "returned"

\* Calls whose _close_job read remained_tasks == 0.
ObservedZero == {p \in Procs : "close_zero" \in runLog[p]}

\* Cost documents of the job.
JobCosts == {c \in DOMAIN costs : c.job_id = JobId}

\* C1: with the tasks of a job running get_cost_data concurrently, exactly
\* one task's _close_job call observes remained_tasks == 0: never more than
\* one, and one once all the calls have ended.
C1_ExactlyOneObservesZero ==
    Complete =>
        /\ Cardinality(ObservedZero) <= 1
        /\ AllEnded => Cardinality(ObservedZero) = 1

\* C2: the job is terminal (SUCCESS or ERROR) if and only if remained_tasks
\* has reached 0 through exactly NumTasks terminal task transitions, and the
\* finalization (SUCCESS, last_synchronized_at, reconciliation) is performed
\* at most once.
C2_TerminalIffAllTransitioned ==
    Complete =>
        /\ job.status \in {"SUCCESS", "ERROR"} =>
               job.remained_tasks = 0 /\ jobLog.transitions = NumTasks
        /\ (AllEnded /\ job.remained_tasks = 0 /\ jobLog.transitions = NumTasks) =>
               job.status \in {"SUCCESS", "ERROR"}
        /\ jobLog.finalized <= 1
        /\ jobLog.synced <= 1
        /\ jobLog.reconciled <= 1

\* C3: rollback completeness: once every task of the job has finished its
\* get_cost_data run, _close_job included, and the job is ERROR, no Cost
\* document with the job's job_id remains.
C3_RollbackComplete ==
    (AllReturned /\ job.status = "ERROR") => JobCosts = {}

\* C3 witness: a job that ended ERROR after a sibling task had persisted
\* rows and ended SUCCESS, and whose records a rollback has removed.
C3_Witness ==
    /\ AllReturned
    /\ job.status = "ERROR"
    /\ jobLog.rolledback > 0
    /\ \E t \in TaskIds : task[t].status = "SUCCESS" /\ task[t].ingested_count > 0
    /\ JobCosts = {}

\* Exceptions of steps 2-4: resolution, plugin initialization, iteration of
\* the plugin stream, billed_at parsing, persistence.
FetchExcs == {"NotFound:data_source", "endpoint", "secret", "initialize",
              "plugin", "billed_at", "create_cost"}

\* C4 as stated: get_cost_data never propagates an exception to its caller.
C4_NeverPropagates ==
    \A p \in Procs : outcome[p].result # "raised"

\* C4 amended: no exception raised inside the try block (lines 66-91)
\* reaches the caller: the call goes on and records it on the task; the
\* exceptions that reach the caller are the NotFound of get_job_task for a
\* missing JobTask (line 55), before anything was changed, and the NotFound
\* of get_job for a missing Job in _close_job (line 96).
C4_PropagatesOnlyNotFound ==
    \A p \in Procs :
        /\ outcome[p].result = "raised" =>
               \/ outcome[p].exc = "NotFound:job_task" /\ outcome[p].line = 55
                    /\ runLog[p] = {}
               \/ outcome[p].exc = "NotFound:job" /\ outcome[p].line = 96
        /\ (outcome[p].exc \in FetchExcs \cup {"decrease_remained_tasks"}
              /\ pc[p] \notin {"change_error"}) =>
               /\ outcome[p].result # "raised"
               /\ task[p].status = "ERROR"
               /\ task[p].error_message = outcome[p].exc

\* C4 witness: a call whose plugin stream raised has returned normally,
\* the failure recorded on its task.
C4_Witness ==
    \E p \in Procs :
        /\ outcome[p] = [result |-> "returned", exc |-> "plugin", line |-> 82]
        /\ task[p].status = "ERROR"
        /\ task[p].error_message = "plugin"

\* C5: an exception raised during data-source/endpoint/secret resolution,
\* plugin initialization, iteration of the plugin stream, billed_at parsing
\* or persistence is not re-raised, marks the task ERROR with the
\* exception's message, and the task is not marked SUCCESS in that run.
C5_FetchFailureMarksError ==
    \A p \in Procs :
        outcome[p].exc \in FetchExcs =>
            /\ outcome[p].result # "raised"
            /\ "task_success" \notin runLog[p]
            /\ task[p].status # "SUCCESS"
            /\ pc[p] # "change_error" =>
                   /\ "task_error" \in runLog[p]
                   /\ task[p].status = "ERROR"
                   /\ task[p].error_message = outcome[p].exc

\* C5 witness: a row with an unparsable billed_at made the task ERROR with
\* that message, and the call returned normally.
C5_Witness ==
    \E p \in Procs :
        /\ outcome[p] = [result |-> "returned", exc |-> "billed_at", line |-> 85]
        /\ task[p].status = "ERROR"
        /\ task[p].error_message = "billed_at"
        /\ "task_success" \notin runLog[p]

NotFoundExcs == {"NotFound:job_task", "NotFound:job", "NotFound:data_source"}

\* C6 as stated: a NotFound for a missing job, task or data source is
\* propagated to the caller of get_cost_data.
C6_NotFoundPropagates ==
    \A p \in Procs :
        (outcome[p].exc \in NotFoundExcs /\ pc[p] = "idle") =>
            outcome[p].result = "raised"

\* C6 amended: the NotFound for a missing JobTask (line 55) and for a
\* missing Job (line 96, in _close_job) is propagated to the caller; the
\* NotFound for a missing DataSource (line 67) is raised inside the try
\* block: it is recorded as the task's ERROR and the call returns normally.
C6_NotFoundByDocument ==
    \A p \in Procs :
        (runs[p] > 0 /\ pc[p] = "idle") =>
            /\ p \notin DOMAIN task =>
                   outcome[p] = [result |-> "raised", exc |-> "NotFound:job_task", line |-> 55]
            /\ ~job.exists =>
                   outcome[p] = [result |-> "raised", exc |-> "NotFound:job", line |-> 96]
            /\ ~ds.exists =>
                   /\ outcome[p] = [result |-> "returned", exc |-> "NotFound:data_source",
                                    line |-> 67]
                   /\ task[p].status = "ERROR"
                   /\ task[p].error_message = "NotFound:data_source"

\* C6 witness: the call of a task whose Job is gone has ended with the
\* NotFound of _close_job, after the task's terminal transition.
C6_Witness ==
    \E p \in Procs :
        /\ ~job.exists
        /\ pc[p] = "idle"
        /\ outcome[p].result = "raised"
        /\ outcome[p].exc = "NotFound:job"
        /\ task[p].status \in {"SUCCESS", "ERROR"}

\* The call of p takes the step.
StepOf(p) == pc'[p] # pc[p]

\* C7 as stated: a _close_job call for a job that an earlier close call has
\* already made terminal is a no-op: no reconciliation, no rollback, no
\* status change, no data-source update.
C7_CloseAgainIsNoOp ==
    [][\A p \in Procs :
          ("close_again" \in runLog[p] /\ StepOf(p)) =>
              /\ jobLog' = jobLog
              /\ job' = job /\ ds' = ds /\ costs' = costs]_vars

\* C7 amended: a _close_job call for a job that an earlier close call has
\* finalized (SUCCESS) does nothing; for a job that an earlier call has
\* rolled back (ERROR) it runs _rollback_cost_data again, which deletes
\* nothing, the tasks having all ended; in both cases the job, the data
\* source and the cost records stay as they are and nothing is finalized or
\* reconciled again.
C7_CloseAgainChangesNothing ==
    [][\A p \in Procs :
          ("close_again" \in runLog[p] /\ StepOf(p)) =>
              /\ pc[p] = "rollback"
              /\ job.status = "ERROR"
              /\ jobLog' = [jobLog EXCEPT !.rolledback = @ + 1]
              /\ job' = job /\ ds' = ds /\ costs' = costs]_vars

\* C7 witness: a close call that found the job rolled back by an earlier
\* call has run the rollback a second time.
C7_Witness ==
    \E p \in Procs :
        /\ "close_again" \in runLog[p]
        /\ pc[p] = "idle"
        /\ job.status = "ERROR"
        /\ jobLog.rolledback >= 2

\* C8: a JobTask in SUCCESS or ERROR never changes status, ingested_count or
\* error_message again, whatever get_cost_data calls follow.
C8_TerminalTaskIsFinal ==
    [][\A t \in DOMAIN task :
          task[t].status \in {"SUCCESS", "ERROR"} => task'[t] = task[t]]_vars

\* C9: a get_cost_data run that marked its task IN_PROGRESS does not end
\* without having invoked _close_job, whether the task ended SUCCESS or
\* ERROR, and invokes it only after the task's terminal transition and the
\* decrement of remained_tasks.
C9_CloseAfterTerminalTransition ==
    \A p \in Procs :
        /\ ("in_progress" \in runLog[p] /\ pc[p] = "idle") => "close" \in runLog[p]
        /\ (pc[p] = "close_job" \/ "close" \in runLog[p]) =>
               /\ "decrement" \in runLog[p]
               /\ "task_success" \in runLog[p] \/ "task_error" \in runLog[p]
               /\ task[p].status \in {"SUCCESS", "ERROR"}

\* C9 witness: a run whose task ended ERROR has invoked _close_job and
\* returned.
C9_Witness ==
    \E p \in Procs :
        /\ pc[p] = "idle"
        /\ outcome[p].result = "returned"
        /\ task[p].status = "ERROR"
        /\ {"in_progress", "task_error", "decrement", "close"} \subseteq runLog[p]

PriorCost(data_source_id, domain_id, billed_at) ==
    [job_id |-> "job-0", data_source_id |-> data_source_id, domain_id |-> domain_id,
     original_currency |-> "USD", original_cost |-> 1, billed_at |-> billed_at]

\* C12: the reconciliation of a job whose last_changed_at is T deletes
\* exactly the Cost documents billed at or after T, of the job's data source
\* and domain, that another job wrote; every other document stays as it is.
C12_DeletesExactlyStale ==
    [][\A p \in Procs :
          (pc[p] = "delete_changed" /\ StepOf(p)) =>
              /\ DOMAIN costs' \subseteq DOMAIN costs
              /\ \A c \in DOMAIN costs :
                   IF /\ c.billed_at >= T
                      /\ c.data_source_id = DataSourceId
                      /\ c.domain_id = DomainId
                      /\ c.job_id # JobId
                   THEN c \notin DOMAIN costs'
                   ELSE c \in DOMAIN costs' /\ costs'[c] = costs[c]]_vars

\* After a reconciliation the earlier job's document billed at T is gone,
\* the one billed at T - 1, the ones of another data source and of another
\* domain and a document of the job itself billed at T are still there.
C12_Witness ==
    /\ jobLog.reconciled > 0
    /\ PriorCost(DataSourceId, DomainId, T) \notin DOMAIN costs
    /\ PriorCost(DataSourceId, DomainId, T - 1) \in DOMAIN costs
    /\ PriorCost("ds-2", DomainId, T) \in DOMAIN costs
    /\ PriorCost(DataSourceId, "domain-2", T) \in DOMAIN costs
    /\ \E c \in JobCosts : c.billed_at >= T

C15_NoReconciliationWithoutLastChangedAt ==
    job.last_changed_at = NoneTime =>
        /\ jobLog.reconciled = 0
        /\ \A c \in PriorCosts : c \in DOMAIN costs /\ costs[c] = 1
        /\ (AllReturned /\ \A t \in TaskIds : task[t].status = "SUCCESS") =>
             /\ job.status = "SUCCESS"
             /\ ds.last_synchronized_at = job.created_at

\* A job without last_changed_at that was finalized and whose call has
\* passed _delete_changed_cost_data.
C15_Witness ==
    /\ job.last_changed_at = NoneTime
    /\ AllReturned
    /\ job.status = "SUCCESS"
    /\ ds.last_synchronized_at = CreatedAt
    /\ jobLog.finalized = 1 /\ jobLog.synced = 1

\* C16: a _close_job call that reads remained_tasks # 0, or remained_tasks
\* = 0 with a status other than IN_PROGRESS and ERROR, returns without
\* changing the job, the data source or the Cost documents; nothing is
\* rolled back while a task is outstanding or while the job is CANCELED.
C16_CloseJobNoOp ==
    [][/\ \A p \in Procs :
            ( /\ pc[p] = "close_job" /\ StepOf(p)
              /\ job.exists
              /\ \/ job.remained_tasks # 0
                 \/ job.status \notin {"IN_PROGRESS", "ERROR"} ) =>
                /\ pc'[p] = "idle" /\ outcome'[p].result = "returned"
                /\ job' = job /\ ds' = ds /\ costs' = costs
       /\ (job.remained_tasks > 0 \/ job.status = "CANCELED") =>
            jobLog.rolledback = 0]_vars

\* The tasks of a CANCELED job have persisted rows and ended; the last
\* _close_job call read remained_tasks = 0 and left the rows in place.
C16_Witness ==
    /\ job.status = "CANCELED"
    /\ job.remained_tasks = 0
    /\ AllReturned
    /\ ObservedZero # {}
    /\ JobCosts # {}

\* C17: the reconciliation of a job deletes no Cost document written by a
\* job that is synchronising the same data source and domain concurrently.
C17_KeepsConcurrentJobCosts ==
    [][\A p \in Procs :
          (pc[p] = "delete_changed" /\ StepOf(p)) =>
              \A c \in DOMAIN costs :
                  c.job_id = OtherJobId => c \in DOMAIN costs']_vars

\* Tasks whose terminal transition, with its decrement, has been made.
Transitioned == {t \in TaskIds : runs[t] > 1 \/ "decrement" \in runLog[t]}

\* C18: remained_tasks of a job is never negative and is the number of its
\* tasks that have not made their terminal transition, also when
\* get_cost_data is called again for a task that is terminal already.
C18_RemainedCountsOutstanding ==
    Complete =>
        /\ job.remained_tasks >= 0
        /\ job.remained_tasks = Cardinality(TaskIds \ Transitioned)

\* C19: every Cost document written by a task of the job carries the job_id,
\* data_source_id and domain_id of the task, the row's currency or USD and
\* the row's cost or 0; a job_id in the row is overridden, so no document is
\* added in the name of the earlier job.
C19_CostCarriesTaskIdentity ==
    \A c \in DOMAIN costs :
        \/ c \in PriorCosts /\ costs[c] = 1
        \/ /\ c.job_id = JobId
           /\ c.data_source_id = DataSourceId
           /\ c.domain_id = DomainId
           /\ \/ /\ c.original_currency = "EUR" /\ c.original_cost = 10
                 /\ c.billed_at = T
              \/ /\ c.original_currency = "USD" /\ c.original_cost = 0
                 /\ c.billed_at = T - 1

\* A row with job_id, currency and cost and a row with billed_at only have
\* both been persisted for the job.
C19_Witness ==
    /\ \E c \in JobCosts : c.original_currency = "EUR" /\ c.original_cost = 10
    /\ \E c \in JobCosts : c.original_currency = "USD" /\ c.original_cost = 0

\* C20: a call that reaches the plugin's get_cost_data has not asked the
\* secret manager and passes an empty secret_data when the plugin_info has
\* no secret_id or an empty one, and passes the secret manager's data as it
\* is otherwise; without a secret_id no call fails in the secret manager.
C20_SecretDataBySecretId ==
    \A p \in Procs :
        /\ fetched[p].started =>
             IF ds.secret_id \in {NoneId, ""}
             THEN ~fetched[p].secret_queried /\ fetched[p].secret_data = EmptyDict
             ELSE /\ fetched[p].secret_queried
                  /\ fetched[p].secret_data = SecretStore[ds.secret_id]
        /\ outcome[p].exc = "secret" => ds.secret_id \notin {NoneId, ""}

\* A task of a data source with an empty secret_id has fetched rows with an
\* empty secret_data and succeeded.
C20_Witness ==
    /\ ds.secret_id = ""
    /\ \E t \in DOMAIN task :
         /\ task[t].status = "SUCCESS"
         /\ fetched[t].started /\ fetched[t].rows > 0
         /\ fetched[t].secret_data = EmptyDict
====
